---------------------------- MODULE Spec2Model ----------------------------
(***************************************************************************)
(* Model of the TOML tokenizer of src/parsers/toml/tokens.rs, and of the   *)
(* container status watcher of src/watchers/container_status.rs.           *)
(*                                                                         *)
(* A character is its Unicode code point (a natural number); a text is a   *)
(* sequence of characters.  A source s is a text as str::char_indices      *)
(* yields it: the sequence of its characters, each with the BYTE offset of *)
(* its UTF-8 encoding (s[k].i, s[k].ch).  The iterator `chars` of the      *)
(* Tokenizer is the number of characters it has yielded.                   *)
(***************************************************************************)
EXTENDS Integers, Sequences, FiniteSets, TLC

(* ------------------------------------------------------------------ *)
(* Characters the code names                                           *)
(* ------------------------------------------------------------------ *)
TAB == 9
LF == 10
CR == 13
SPACE == 32
DQUOTE == 34
HASH == 35
SQUOTE == 39
PLUS == 43
COMMA == 44
PERIOD == 46
COLON == 58
EQUALS == 61
LBRACKET == 91
BACKSLASH == 92
RBRACKET == 93
LBRACE == 123
RBRACE == 125
DEL == 127
BOM == 65279
MAXCHAR == 1114111

(* ------------------------------------------------------------------ *)
(* Bounds of the checked inputs                                        *)
(* ------------------------------------------------------------------ *)
\* longest source drawn from Alphabet
MaxLen == 3
\* longest run of closing delimiters after the body of a string
MaxClose == 6
\* most calls of tokenize answered Ok(None) that are explored
MaxNone == 2

(* ------------------------------------------------------------------ *)
(* UTF-8 layout of a source (str::CharIndices)                         *)
(* ------------------------------------------------------------------ *)
\* char::len_utf8
Utf8Len(ch) ==
    IF ch < 128 THEN 1
    ELSE IF ch < 2048 THEN 2
    ELSE IF ch < 65536 THEN 3
    ELSE 4

RECURSIVE OffsetOf(_, _)
\* byte offset of the character that follows the first k characters of text
OffsetOf(text, k) ==
    IF k = 0 THEN 0 ELSE OffsetOf(text, k - 1) + Utf8Len(text[k])

\* str::char_indices: every character of text with its byte offset
CharIndices(text) ==
    [ k \in 1..Len(text) |-> [i |-> OffsetOf(text, k - 1), ch |-> text[k]] ]

\* str::len: the length of s in bytes
SrcLen(s) ==
    IF Len(s) = 0 THEN 0 ELSE s[Len(s)].i + Utf8Len(s[Len(s)].ch)

\* &s[a..b]: the characters of s whose first byte lies in [a, b)
Slice(s, a, b) ==
    LET idx == { k \in 1..Len(s) : s[k].i >= a /\ s[k].i < b }
        lo == IF idx = {} THEN 1 ELSE CHOOSE k \in idx : \A j \in idx : k <= j
    IN  [ j \in 1..Cardinality(idx) |-> s[lo + j - 1].ch ]

(* ------------------------------------------------------------------ *)
(* Option<(usize, char)>                                               *)
(* ------------------------------------------------------------------ *)
None == [some |-> FALSE]
Some(i, ch) == [some |-> TRUE, i |-> i, ch |-> ch]

(* ------------------------------------------------------------------ *)
(* Cursor: the CharIndices iterator, p = characters already yielded    *)
(* ------------------------------------------------------------------ *)
\* self.chars.clone().next()
peek_next(s, p) ==
    IF p < Len(s) THEN Some(s[p + 1].i, s[p + 1].ch) ELSE None

\* the iterator after self.chars.next(): a finished iterator stays finished
Advance(s, p) == IF p < Len(s) THEN p + 1 ELSE p

eat(s, p, target_char) ==
    LET nx == peek_next(s, p)
    IN  IF nx.some /\ nx.ch = target_char
        THEN [chars |-> Advance(s, p), ate |-> TRUE]
        ELSE [chars |-> p, ate |-> FALSE]

\* current with the offset of the last character, not the length, at the end
current_last(s, p) ==
    LET nx == peek_next(s, p)
    IN  IF nx.some THEN nx.i ELSE SrcLen(s) - 1

current(s, p) ==
    LET nx == peek_next(s, p)
    IN  IF nx.some THEN nx.i ELSE SrcLen(s)

\* calculate_span with unwrap_or_default() for the end of the input
calculate_span_default(s, p, start) ==
    LET nx == peek_next(s, p)
    IN  [start |-> start, end |-> IF nx.some THEN nx.i ELSE 0]

calculate_span(s, p, start) ==
    LET nx == peek_next(s, p)
    IN  [start |-> start, end |-> IF nx.some THEN nx.i ELSE SrcLen(s)]

is_last_char(s, p) == ~ peek_next(s, p).some

\* is_keylike without the upper bound of the lower-case range
is_keylike_open(ch) ==
    \/ (65 <= ch /\ ch <= 90)
    \/ 97 <= ch
    \/ (48 <= ch /\ ch <= 57)
    \/ ch = 45
    \/ ch = 95

is_keylike(ch) ==
    \/ (65 <= ch /\ ch <= 90)
    \/ (97 <= ch /\ ch <= 122)
    \/ (48 <= ch /\ ch <= 57)
    \/ ch = 45
    \/ ch = 95

(* ------------------------------------------------------------------ *)
(* Sub-scanners of the simple tokens                                   *)
(* ------------------------------------------------------------------ *)
RECURSIVE WhitespaceLoop_spaces(_, _)
\* while self.eat(' ') {}
WhitespaceLoop_spaces(s, p) ==
    LET e1 == eat(s, p, SPACE)
    IN  IF e1.ate THEN WhitespaceLoop_spaces(s, e1.chars) ELSE p

RECURSIVE WhitespaceLoop(_, _)
\* while self.eat(' ') || self.eat('\t') {}
WhitespaceLoop(s, p) ==
    LET e1 == eat(s, p, SPACE)
        e2 == eat(s, p, TAB)
    IN  IF e1.ate THEN WhitespaceLoop(s, e1.chars)
        ELSE IF e2.ate THEN WhitespaceLoop(s, e2.chars)
        ELSE p

whitespace(s, p, start) ==
    LET q == WhitespaceLoop(s, p)
    IN  [chars |-> q,
         token |-> [type |-> "WhiteSpace", text |-> Slice(s, start, current(s, q))]]

RECURSIVE KeylikeLoop(_, _)
KeylikeLoop(s, p) ==
    LET nx == peek_next(s, p)
    IN  IF nx.some /\ is_keylike(nx.ch) THEN KeylikeLoop(s, Advance(s, p)) ELSE p

keylike(s, p, start) ==
    LET q == KeylikeLoop(s, p)
    IN  [chars |-> q,
         token |-> [type |-> "Keylike", text |-> Slice(s, start, current(s, q))]]

RECURSIVE CommentLoop_notab(_, _)
\* the loop of comment without the exception for the tab
CommentLoop_notab(s, p) ==
    LET nx == peek_next(s, p)
    IN  IF nx.some /\ ~ (nx.ch < SPACE \/ nx.ch > MAXCHAR)
        THEN CommentLoop_notab(s, Advance(s, p))
        ELSE p

RECURSIVE CommentLoop(_, _)
CommentLoop(s, p) ==
    LET nx == peek_next(s, p)
    IN  IF nx.some /\ ~ (nx.ch # TAB /\ (nx.ch < SPACE \/ nx.ch > MAXCHAR))
        THEN CommentLoop(s, Advance(s, p))
        ELSE p

comment(s, p, start) ==
    LET q == CommentLoop(s, p)
    IN  [chars |-> q,
         token |-> [type |-> "Comment", text |-> Slice(s, start, current(s, q))]]

(* ------------------------------------------------------------------ *)
(* MaybeString: the decoded-value buffer                               *)
(* ------------------------------------------------------------------ *)
NotEscaped(start) == [kind |-> "NotEscaped", start |-> start]
Owned(string) == [kind |-> "Owned", string |-> string]

\* push allocating a buffer when there is none
push_alloc(val, c) ==
    IF val.kind = "NotEscaped" THEN Owned(<<c>>) ELSE Owned(Append(val.string, c))

\* MaybeString::push
push(val, c) ==
    IF val.kind = "NotEscaped" THEN val ELSE Owned(Append(val.string, c))

\* MaybeString::owned(&self.src[..i])
owned(val, s, i) ==
    IF val.kind = "NotEscaped" THEN Owned(Slice(s, val.start, i)) ELSE val

\* MaybeString::into_cow(&self.src[..i]): Cow::Borrowed or Cow::Owned
into_cow(val, s, i) ==
    IF val.kind = "NotEscaped"
    THEN [borrowed |-> TRUE, str |-> Slice(s, val.start, i)]
    ELSE [borrowed |-> FALSE, str |-> val.string]

(* ------------------------------------------------------------------ *)
(* Results                                                             *)
(* ------------------------------------------------------------------ *)
NoErr == [e |-> "none"]
InvalidCharInString(i, ch) == [e |-> "InvalidCharInString", at |-> i, ch |-> ch]
InvalidEscape(i, ch) == [e |-> "InvalidEscape", at |-> i, ch |-> ch]
InvalidHexEscape(i, ch) == [e |-> "InvalidHexEscape", at |-> i, ch |-> ch]
InvalidEscapeValue(i, v) == [e |-> "InvalidEscapeValue", at |-> i, val |-> v]
\* NewlineInString with the offset behind the line feed (self.current())
NewlineInString_behind(i) == [e |-> "NewlineInString", at |-> i + 1]
NewlineInString(i) == [e |-> "NewlineInString", at |-> i]
Unexpected(i, ch) == [e |-> "Unexpected", at |-> i, ch |-> ch]
UnterminatedString(i) == [e |-> "UnterminatedString", at |-> i]

StringToken(src, value, multiline) ==
    [type |-> "String", src |-> src, value |-> value, multiline |-> multiline]

Ok(p, token) == [chars |-> p, ok |-> TRUE, token |-> token]
Err(p, err) == [chars |-> p, ok |-> FALSE, err |-> err]

(* ------------------------------------------------------------------ *)
(* Escape decoder                                                      *)
(* ------------------------------------------------------------------ *)
\* is_digit(36) in place of is_digit(16)
IsHexDigit_radix36(ch) ==
    \/ (48 <= ch /\ ch <= 57)
    \/ (65 <= ch /\ ch <= 90)
    \/ (97 <= ch /\ ch <= 122)

\* ch as u32 <= 0x7F && ch.is_digit(16)
IsHexDigit(ch) ==
    \/ (48 <= ch /\ ch <= 57)
    \/ (65 <= ch /\ ch <= 70)
    \/ (97 <= ch /\ ch <= 102)

\* a digit value that forgets the 10 of the upper-case letters
HexValue_upper(ch) ==
    IF ch <= 57 THEN ch - 48
    ELSE IF ch <= 70 THEN ch - 65
    ELSE ch - 87

\* the value of one hexadecimal digit, as u32::from_str_radix reads it
HexValue(ch) ==
    IF ch <= 57 THEN ch - 48
    ELSE IF ch <= 70 THEN ch - 55
    ELSE ch - 87

\* char::from_u32: every value but the surrogates and those above 0x10FFFF
IsScalarValue(v) == v < 55296 \/ (57344 <= v /\ v <= MAXCHAR)

RECURSIVE HexLoop(_, _, _, _, _)
\* for _ in 0..len: k digits are still to be read, acc is the value of buf
HexLoop(s, p, start, k, acc) ==
    IF k = 0 THEN [chars |-> p, err |-> NoErr, val |-> acc]
    ELSE LET nx == peek_next(s, p)
             q == Advance(s, p)
         IN  IF ~ nx.some
             THEN [chars |-> q, err |-> UnterminatedString(start), val |-> acc]
             ELSE IF IsHexDigit(nx.ch)
             THEN HexLoop(s, q, start, k - 1, acc * 16 + HexValue(nx.ch))
             ELSE [chars |-> q, err |-> InvalidHexEscape(nx.i, nx.ch), val |-> acc]

\* hex reporting a bad value at the offset after i
hex_next(s, p, start, i, len) ==
    LET r == HexLoop(s, p, start, len, 0)
    IN  IF r.err # NoErr THEN r
        ELSE IF IsScalarValue(r.val) THEN r
        ELSE [chars |-> r.chars, err |-> InvalidEscapeValue(i + 1, r.val), val |-> r.val]

\* Tokenizer::hex: the decoded character, or an error
hex(s, p, start, i, len) ==
    LET r == HexLoop(s, p, start, len, 0)
    IN  IF r.err # NoErr THEN r
        ELSE IF IsScalarValue(r.val) THEN r
        ELSE [chars |-> r.chars, err |-> InvalidEscapeValue(i, r.val), val |-> r.val]

RECURSIVE ContinuationToNewline(_, _)
\* first loop of the line continuation: blanks up to and including a line feed;
\* bad = another character was met
ContinuationToNewline(s, p) ==
    LET nx == peek_next(s, p)
    IN  IF ~ nx.some THEN [chars |-> p, bad |-> FALSE]
        ELSE IF nx.ch = SPACE \/ nx.ch = TAB THEN ContinuationToNewline(s, Advance(s, p))
        ELSE IF nx.ch = LF THEN [chars |-> Advance(s, p), bad |-> FALSE]
        ELSE [chars |-> p, bad |-> TRUE]

RECURSIVE ContinuationSkip_blanks(_, _)
\* the second loop skipping spaces and tabs only, no further line feed
ContinuationSkip_blanks(s, p) ==
    LET nx == peek_next(s, p)
    IN  IF nx.some /\ (nx.ch = SPACE \/ nx.ch = TAB)
        THEN ContinuationSkip_blanks(s, Advance(s, p))
        ELSE p

RECURSIVE ContinuationSkip(_, _)
\* second loop of the line continuation: every further blank or line feed
ContinuationSkip(s, p) ==
    LET nx == peek_next(s, p)
    IN  IF nx.some /\ (nx.ch = SPACE \/ nx.ch = TAB \/ nx.ch = LF)
        THEN ContinuationSkip(s, Advance(s, p))
        ELSE p

\* ch == '\u{09}' || ('\u{20}' <= ch && ch <= '\u{10ffff}' && ch != '\u{7f}')
IsPlainChar(ch) == ch = TAB \/ (SPACE <= ch /\ ch <= MAXCHAR /\ ch # DEL)

NewCh(p, val, err) == [chars |-> p, val |-> val, err |-> err]

\* the closure literal_string hands to read_string
LiteralNewCh(s, p, val, multi, i, ch, start) ==
    IF IsPlainChar(ch)
    THEN NewCh(p, push(val, ch), NoErr)
    ELSE NewCh(p, val, InvalidCharInString(i, ch))

\* the arm '\\' of the closure basic_string hands to read_string
BasicEscape(s, p, val, multi, i, start) ==
    LET v == owned(val, s, i)
        nx == peek_next(s, p)
        q == Advance(s, p)
    IN  IF ~ nx.some THEN NewCh(q, v, UnterminatedString(start))
        ELSE IF nx.ch = DQUOTE THEN NewCh(q, push(v, DQUOTE), NoErr)
        ELSE IF nx.ch = BACKSLASH THEN NewCh(q, push(v, BACKSLASH), NoErr)
        ELSE IF nx.ch = 98 THEN NewCh(q, push(v, 8), NoErr)       \* \b
        ELSE IF nx.ch = 102 THEN NewCh(q, push(v, 12), NoErr)     \* \f
        ELSE IF nx.ch = 110 THEN NewCh(q, push(v, LF), NoErr)     \* \n
        ELSE IF nx.ch = 114 THEN NewCh(q, push(v, CR), NoErr)     \* \r
        ELSE IF nx.ch = 116 THEN NewCh(q, push(v, TAB), NoErr)    \* \t
        ELSE IF nx.ch = 117 \/ nx.ch = 85                         \* \u, \U
        THEN LET h == hex(s, q, start, nx.i, IF nx.ch = 117 THEN 4 ELSE 8)
             IN  IF h.err # NoErr THEN NewCh(h.chars, v, h.err)
                 ELSE NewCh(h.chars, push(v, h.val), NoErr)
        ELSE IF (nx.ch = SPACE \/ nx.ch = TAB \/ nx.ch = LF) /\ multi
        THEN LET a == IF nx.ch # LF THEN ContinuationToNewline(s, q)
                      ELSE [chars |-> q, bad |-> FALSE]
             IN  IF a.bad THEN NewCh(a.chars, v, InvalidEscape(nx.i, nx.ch))
                 ELSE NewCh(ContinuationSkip(s, a.chars), v, NoErr)
        ELSE NewCh(q, v, InvalidEscape(nx.i, nx.ch))

\* the closure basic_string hands to read_string
BasicNewCh(s, p, val, multi, i, ch, start) ==
    IF ch = BACKSLASH THEN BasicEscape(s, p, val, multi, i, start)
    ELSE IF IsPlainChar(ch) THEN NewCh(p, push(val, ch), NoErr)
    ELSE NewCh(p, val, InvalidCharInString(i, ch))

\* new_ch, by the delimiter: '\'' is literal_string's closure, '"' basic_string's
new_ch(s, p, val, multi, i, ch, delim, start) ==
    IF delim = SQUOTE
    THEN LiteralNewCh(s, p, val, multi, i, ch, start)
    ELSE BasicNewCh(s, p, val, multi, i, ch, start)

(* ------------------------------------------------------------------ *)
(* String reader                                                       *)
(* ------------------------------------------------------------------ *)
\* the j-th byte (j = 0 first) of the UTF-8 encoding of ch
Utf8Byte(ch, j) ==
    LET n == Utf8Len(ch)
    IN  IF n = 1 THEN ch
        ELSE IF j = 0
        THEN (IF n = 2 THEN 192 + (ch \div 64)
              ELSE IF n = 3 THEN 224 + (ch \div 4096)
              ELSE 240 + (ch \div 262144))
        ELSE IF j = n - 1 THEN 128 + (ch % 64)
        ELSE IF j = n - 2 THEN 128 + ((ch \div 64) % 64)
        ELSE 128 + ((ch \div 4096) % 64)

\* self.src.as_bytes()[i], for an offset i inside the source
ByteAt(s, i) ==
    LET k == CHOOSE k \in 1..Len(s) : s[k].i <= i /\ i < s[k].i + Utf8Len(s[k].ch)
    IN  Utf8Byte(s[k].ch, i - s[k].i)

\* the arm of the delimiter moving the close point past a fourth and a fifth
\* delimiter without pushing them
MultilineClose_nopush(s, p, val, i, delim) ==
    LET e2 == eat(s, p, delim)
        e3 == eat(s, e2.chars, delim)
        e4 == eat(s, e3.chars, delim)
        i4 == IF e4.ate THEN i + 1 ELSE i
        e5 == eat(s, e4.chars, delim)
        i5 == IF e5.ate THEN i4 + 1 ELSE i4
    IN  IF ~ e2.ate
        THEN [closed |-> FALSE, chars |-> e2.chars, val |-> push(val, delim), i |-> i]
        ELSE IF ~ e3.ate
        THEN [closed |-> FALSE, chars |-> e3.chars,
              val |-> push(push(val, delim), delim), i |-> i]
        ELSE [closed |-> TRUE, chars |-> e5.chars, val |-> val, i |-> i5]

\* the arm of the delimiter in multi-line mode, after the delimiter at offset i
\* was taken: closed = FALSE means the delimiters were content and the scan goes on
MultilineClose(s, p, val, i, delim) ==
    LET e2 == eat(s, p, delim)
        e3 == eat(s, e2.chars, delim)
        e4 == eat(s, e3.chars, delim)
        v4 == IF e4.ate THEN push(val, delim) ELSE val
        i4 == IF e4.ate THEN i + 1 ELSE i
        e5 == eat(s, e4.chars, delim)
        v5 == IF e5.ate THEN push(v4, delim) ELSE v4
        i5 == IF e5.ate THEN i4 + 1 ELSE i4
    IN  IF ~ e2.ate
        THEN [closed |-> FALSE, chars |-> e2.chars, val |-> push(val, delim), i |-> i]
        ELSE IF ~ e3.ate
        THEN [closed |-> FALSE, chars |-> e3.chars,
              val |-> push(push(val, delim), delim), i |-> i]
        ELSE [closed |-> TRUE, chars |-> e5.chars, val |-> v5, i |-> i5]

\* the arm '\n' trimming every line feed, not only the first character scanned
MultilineNewline_always(s, p, val, n, i) == NotEscaped(current(s, p))

\* the arm '\n' trimming a line feed of the second iteration too
MultilineNewline_second(s, p, val, n, i) ==
    LET v == IF ByteAt(s, i) = CR THEN owned(val, s, i) ELSE val
    IN  IF n <= 2 THEN NotEscaped(current(s, p)) ELSE push(v, LF)

\* the arm '\n' in multi-line mode: n counts the iterations of the loop,
\* this one included; p is the iterator after the line feed at offset i
MultilineNewline(s, p, val, n, i) ==
    LET v == IF ByteAt(s, i) = CR THEN owned(val, s, i) ELSE val
    IN  IF n = 1 THEN NotEscaped(current(s, p)) ELSE push(v, LF)

\* an iteration after which the loop goes on, with iterator p and buffer val
Goes(p, val) == [done |-> FALSE, chars |-> p, val |-> val]

\* an iteration from which read_string returns res
Returns(res, val) == [done |-> TRUE, chars |-> res.chars, val |-> val, res |-> res]

\* one iteration of the 'outer: loop of read_string, entered with the iterator
\* p, the buffer val and n0 iterations done
ReadStep(s, p, val, n0, multiline, delim, start) ==
    LET n == n0 + 1
        nx == peek_next(s, p)
        q == Advance(s, p)
    IN  IF ~ nx.some THEN Returns(Err(q, UnterminatedString(start)), val)
        ELSE IF nx.ch = LF
        THEN IF multiline
             THEN Goes(q, MultilineNewline(s, q, val, n, nx.i))
             ELSE Returns(Err(q, NewlineInString(nx.i)), val)
        ELSE IF nx.ch = delim
        THEN IF multiline
             THEN LET c == MultilineClose(s, q, val, nx.i, delim)
                  IN  IF c.closed
                      THEN Returns(Ok(c.chars,
                              StringToken(Slice(s, start, current(s, c.chars)),
                                          into_cow(c.val, s, c.i), multiline)), val)
                      ELSE Goes(c.chars, c.val)
             ELSE Returns(Ok(q, StringToken(Slice(s, start, current(s, q)),
                                            into_cow(val, s, nx.i), multiline)), val)
        ELSE LET r == new_ch(s, q, val, multiline, nx.i, nx.ch, delim, start)
             IN  IF r.err # NoErr THEN Returns(Err(r.chars, r.err), val)
                 ELSE Goes(r.chars, r.val)

RECURSIVE ReadLoop(_, _, _, _, _, _, _)
\* 'outer: loop of read_string: the iterations one after the other, up to the
\* one read_string returns from
ReadLoop(s, p, val, n0, multiline, delim, start) ==
    LET After(st) ==
            IF st.done THEN st.res
            ELSE ReadLoop(s, st.chars, st.val, n0 + 1, multiline, delim, start)
    IN  After(ReadStep(s, p, val, n0, multiline, delim, start))

\* read_string reporting and slicing from the start of the body, not from the
\* opening delimiter
read_string_bodystart(s, p, delim, start) ==
    LET e1 == eat(s, p, delim)
        e2 == eat(s, e1.chars, delim)
    IN  IF e1.ate /\ ~ e2.ate
        THEN Ok(e2.chars,
                StringToken(Slice(s, start, current(s, e2.chars)),
                            [borrowed |-> TRUE, str |-> << >>], FALSE))
        ELSE LET multiline == e1.ate /\ e2.ate
                 q == IF e1.ate THEN e2.chars ELSE e1.chars
             IN  ReadLoop(s, q, NotEscaped(current(s, q)), 0, multiline, delim,
                          current(s, q))

\* read_string entering multi-line mode on the second delimiter, without
\* looking for a third
read_string_two(s, p, delim, start) ==
    LET e1 == eat(s, p, delim)
    IN  ReadLoop(s, e1.chars, NotEscaped(current(s, e1.chars)), 0, e1.ate, delim, start)

\* the opening of read_string, entered with the first delimiter taken: the
\* iterator after eat(delim) and, if that ate, a second eat(delim)
Opening(s, p, delim) ==
    LET e1 == eat(s, p, delim)
        e2 == eat(s, e1.chars, delim)
    IN  [empty |-> e1.ate /\ ~ e2.ate,
         multiline |-> e1.ate /\ e2.ate,
         chars |-> IF e1.ate THEN e2.chars ELSE e1.chars]

\* Tokenizer::read_string, entered with the opening delimiter (at start) taken
read_string(s, p, delim, start) ==
    LET o == Opening(s, p, delim)
    IN  IF o.empty
        THEN Ok(o.chars,
                StringToken(Slice(s, start, current(s, o.chars)),
                            [borrowed |-> TRUE, str |-> << >>], FALSE))
        ELSE ReadLoop(s, o.chars, NotEscaped(current(s, o.chars)), 0, o.multiline,
                      delim, start)

literal_string(s, p, start) == read_string(s, p, SQUOTE, start)

basic_string(s, p, start) == read_string(s, p, DQUOTE, start)

(* ------------------------------------------------------------------ *)
(* Dispatcher                                                          *)
(* ------------------------------------------------------------------ *)
ResNone == [kind |-> "None"]
ResToken(span, token) == [kind |-> "Token", span |-> span, token |-> token]
ResErr(err) == [kind |-> "Err", err |-> err]

\* the token of a single-character arm of tokenize
Punctuator(ch) ==
    CASE ch = LF -> "NewLine"
      [] ch = EQUALS -> "Equals"
      [] ch = PERIOD -> "Period"
      [] ch = COMMA -> "Comma"
      [] ch = COLON -> "Colon"
      [] ch = PLUS -> "Plus"
      [] ch = LBRACE -> "LeftBrace"
      [] ch = RBRACE -> "RightBrace"
      [] ch = LBRACKET -> "LeftBracket"
      [] ch = RBRACKET -> "RightBracket"
      [] OTHER -> "none"

\* the last arm with a peeked, not a consumed, character
UnexpectedArm_peek(s, q, i, ch) ==
    [chars |-> q - 1, result |-> ResErr(Unexpected(i, ch))]

\* the last arm ending the token sequence instead of reporting the character
UnexpectedArm_none(s, q, i, ch) ==
    [chars |-> q, result |-> ResNone]

\* the arm Some((start, ch)) => return Err(Error::Unexpected(start, ch));
\* q is the iterator after get_next_char
UnexpectedArm(s, q, i, ch) ==
    [chars |-> q, result |-> ResErr(Unexpected(i, ch))]

\* Tokenizer::tokenize: the iterator after the call and what the call returns
tokenize(s, p) ==
    LET nx == peek_next(s, p)
        q == Advance(s, p)
        Done(r) == [chars |-> r.chars,
                    result |-> ResToken(calculate_span(s, r.chars, nx.i), r.token)]
        Str(r) == [chars |-> r.chars,
                   result |-> IF r.ok
                              THEN ResToken(calculate_span(s, r.chars, nx.i), r.token)
                              ELSE ResErr(r.err)]
    IN  IF ~ nx.some THEN [chars |-> q, result |-> ResNone]
        ELSE IF nx.ch = SPACE \/ nx.ch = TAB THEN Done(whitespace(s, q, nx.i))
        ELSE IF nx.ch = HASH THEN Done(comment(s, q, nx.i))
        ELSE IF Punctuator(nx.ch) # "none"
        THEN Done([chars |-> q, token |-> [type |-> Punctuator(nx.ch)]])
        ELSE IF nx.ch = SQUOTE THEN Str(literal_string(s, q, nx.i))
        ELSE IF nx.ch = DQUOTE THEN Str(basic_string(s, q, nx.i))
        ELSE IF is_keylike(nx.ch) THEN Done(keylike(s, q, nx.i))
        ELSE UnexpectedArm(s, q, nx.i, nx.ch)

\* new eating every leading byte-order mark of two
new_twice(s) == eat(s, eat(s, 0, BOM).chars, BOM).chars

\* Tokenizer::new: the iterator of the new tokenizer
new(s) == eat(s, 0, BOM).chars

(* ------------------------------------------------------------------ *)
(* Checked sources                                                     *)
(* ------------------------------------------------------------------ *)
\* space, tab, line feed, carriage return, '#', '=', 'z', '"', '\\' and the
\* byte-order mark (3 bytes)
Alphabet == {SPACE, TAB, LF, CR, HASH, EQUALS, 122, DQUOTE, BACKSLASH, BOM}

\* every source of at most MaxLen characters of Alphabet
ShortSources == UNION { [1..n -> Alphabet] : n \in 0..MaxLen }

\* how the body of a string may begin: with nothing, a line feed, CR LF, z,
\* or e-acute (2 bytes)
Leads == { << >>, <<LF>>, <<CR, LF>>, <<122>>, <<233>> }

\* what may follow: nothing, either quote once or twice, a lone backslash, the
\* escapes \n, A, \U0001F600, \uD800 (a surrogate), the unfinished \u0,
\* \q (no escape), and a backslash before a line feed or a space
Mids ==
    { << >>, <<SQUOTE>>, <<DQUOTE>>, <<SQUOTE, SQUOTE>>, <<DQUOTE, DQUOTE>>,
      <<BACKSLASH>>, <<BACKSLASH, 110>>,
      <<BACKSLASH, 117, 48, 48, 52, 49>>,
      <<BACKSLASH, 85, 48, 48, 48, 49, 70, 54, 48, 48>>,
      <<BACKSLASH, 117, 68, 56, 48, 48>>,
      <<BACKSLASH, 117, 48>>,
      <<BACKSLASH, 113>>,
      <<BACKSLASH, LF>>, <<BACKSLASH, SPACE>> }

\* how the body may end: with nothing, z, a line feed, or a space and z
Tails == { << >>, <<122>>, <<LF>>, <<SPACE, 122>> }

\* k times the character d
Run(d, k) == [ j \in 1..k |-> d ]

\* a string literal, closed or not: nothing or a byte-order mark and '=' before
\* it, one or three opening delimiters, a body, zero to MaxClose closing delimiters
StringSources ==
    { pre \o Run(d, o) \o lead \o mid \o tail \o Run(d, c) :
        pre \in { << >>, <<BOM, EQUALS>> }, d \in {SQUOTE, DQUOTE}, o \in {1, 3},
        lead \in Leads, mid \in Mids, tail \in Tails, c \in 0..MaxClose }

\* "a\nb", "A", """<LF>hello""", "abc, "\uZZZZ", "\U00110000",
\* "\u0<U+0663>12" (an Arabic-Indic digit), """a\n""b""""", "\u00411",
\* "\U0001F600F", #<DEL><e-acute><CR><LF> and three spaces
Examples ==
    { <<DQUOTE, 97, BACKSLASH, 110, 98, DQUOTE>>,
      <<DQUOTE, BACKSLASH, 117, 48, 48, 52, 49, DQUOTE>>,
      <<DQUOTE, DQUOTE, DQUOTE, LF, 104, 101, 108, 108, 111, DQUOTE, DQUOTE, DQUOTE>>,
      <<DQUOTE, 97, 98, 99>>,
      <<DQUOTE, BACKSLASH, 117, 90, 90, 90, 90, DQUOTE>>,
      <<DQUOTE, BACKSLASH, 85, 48, 48, 49, 49, 48, 48, 48, 48, DQUOTE>>,
      <<DQUOTE, BACKSLASH, 117, 48, 1635, 49, 50, DQUOTE>>,
      <<DQUOTE, DQUOTE, DQUOTE, 97, BACKSLASH, 110, DQUOTE, DQUOTE, 98,
        DQUOTE, DQUOTE, DQUOTE, DQUOTE, DQUOTE>>,
      <<DQUOTE, BACKSLASH, 117, 48, 48, 52, 49, 49, DQUOTE>>,
      <<DQUOTE, BACKSLASH, 85, 48, 48, 48, 49, 70, 54, 48, 48, 70, DQUOTE>>,
      <<HASH, DEL, 233, CR, LF>>,
      <<SPACE, SPACE, SPACE>> }

\* a key character (a, Z, 0, 9, '-', '_') before a character next to the
\* ranges of is_keylike: '@', '[', '`', '{', '/', ':', or before z
KeylikeSources ==
    { <<c1, c2>> : c1 \in {97, 90, 48, 57, 45, 95}, c2 \in {64, 91, 96, 123, 47, 58, 122} }

Sources == ShortSources \cup StringSources \cup Examples \cup KeylikeSources

(* ------------------------------------------------------------------ *)
(* State machine: one tokenizer over one source, and its caller        *)
(* ------------------------------------------------------------------ *)
VARIABLES
    src,      \* Tokenizer.src, as char_indices yields it
    chars,    \* Tokenizer.chars: characters the iterator has yielded
    pc,       \* "new" before Tokenizer::new has run, "ready" after
    calls,    \* the calls of tokenize so far: iterator before, after, result
    scan      \* the locals of a call of read_string followed step by step

\* the ContainerStatusWatcher of main, the task that polls it and a caller of
\* add_container
VARIABLES
    containers,   \* the HashMap behind ContainerStatusWatcher.containers
    lock,         \* the holder of the tokio Mutex around the map
    pass,         \* the position and locals of the task running check_status
    adder         \* the position and argument of a call of add_container

tokenizer == <<src, chars, pc, calls, scan>>

watcher == <<containers, lock, pass, adder>>

vars == <<src, chars, pc, calls, scan, containers, lock, pass, adder>>

\* no call of read_string is being followed
NoScan ==
    [on |-> FALSE, from |-> 0, start |-> 0, delim |-> 0, multiline |-> FALSE,
     n |-> 0, val |-> NotEscaped(0), vals |-> << >>, ats |-> << >>]

\* no map entry
NoContainers == [id \in {} |-> "Created"]

\* check_status is not running: the task is between two passes
NoPass == [at |-> "sleep", first |-> NoContainers, todo |-> {}, cur |-> "", seen |-> << >>]

\* add_container is not running
NoAdd == [at |-> "idle", id |-> "", status |-> "Created", mid |-> FALSE]

\* ContainerStatusWatcher { containers: Arc::new(Mutex::new(HashMap::new())) }
WatcherNew ==
    /\ containers = NoContainers
    /\ lock = "free"
    /\ pass = NoPass
    /\ adder = NoAdd

Init ==
    /\ src \in { CharIndices(text) : text \in Sources }
    /\ chars = 0
    /\ pc = "new"
    /\ calls = << >>
    /\ scan = NoScan
    /\ WatcherNew

\* Tokenizer::new(src)
New ==
    /\ pc = "new"
    /\ chars' = new(src)
    /\ pc' = "ready"
    /\ UNCHANGED <<src, calls, scan, watcher>>

\* one call tokenizer.tokenize()
Call ==
    \E r \in { tokenize(src, chars) } :
        /\ chars' = r.chars
        /\ calls' = Append(calls, [from |-> chars, to |-> r.chars, result |-> r.result])
        /\ UNCHANGED <<src, pc, scan, watcher>>

NoneCount == Cardinality({ k \in 1..Len(calls) : calls[k].result.kind = "None" })

\* a caller pulling the next token, at any time
Tokenize ==
    /\ pc = "ready"
    /\ NoneCount < MaxNone
    /\ Call

\* the body of the loop `while !tokenizer.is_last_char() { tokenizer.tokenize() }`
DrainStep ==
    /\ pc = "ready"
    /\ ~ is_last_char(src, chars)
    /\ Call

Next == New \/ Tokenize

Spec == Init /\ [][Next]_vars

DrainNext == New \/ DrainStep

\* the drain loop of tests::should_parse_toml
DrainSpec == Init /\ [][DrainNext]_vars

\* the next call of tokenize would enter read_string with a body to scan
AtString ==
    LET nx == peek_next(src, chars)
    IN  /\ nx.some
        /\ nx.ch \in {SQUOTE, DQUOTE}
        /\ ~ Opening(src, Advance(src, chars), nx.ch).empty

\* a call of tokenize that does not reach the loop of read_string
TokenizeOther ==
    /\ ~ scan.on
    /\ ~ AtString
    /\ Tokenize

\* tokenize up to the loop of read_string: the arm of the quote, the opening,
\* `let mut val = MaybeString::NotEscaped(self.current()); let mut n = 0;`
ScanBegin ==
    /\ pc = "ready"
    /\ ~ scan.on
    /\ AtString
    /\ LET nx == peek_next(src, chars)
           o == Opening(src, Advance(src, chars), nx.ch)
           val == NotEscaped(current(src, o.chars))
       IN  /\ chars' = o.chars
           /\ scan' = [on |-> TRUE, from |-> chars, start |-> nx.i, delim |-> nx.ch,
                       multiline |-> o.multiline, n |-> 0, val |-> val,
                       vals |-> <<val>>, ats |-> <<o.chars>>]
    /\ UNCHANGED <<src, pc, calls, watcher>>

\* one iteration of the loop of read_string; the last one returns from
\* read_string and from tokenize
ScanIter ==
    /\ scan.on
    /\ \E st \in { ReadStep(src, chars, scan.val, scan.n, scan.multiline, scan.delim,
                            scan.start) } :
          /\ chars' = st.chars
          /\ scan' = [scan EXCEPT !.on = ~ st.done, !.n = @ + 1, !.val = st.val,
                                  !.vals = Append(@, st.val), !.ats = Append(@, st.chars)]
          /\ calls' =
                IF ~ st.done THEN calls
                ELSE Append(calls,
                            [from |-> scan.from, to |-> st.chars,
                             result |-> IF st.res.ok
                                        THEN ResToken(calculate_span(src, st.chars, scan.start),
                                                      st.res.token)
                                        ELSE ResErr(st.res.err)])
    /\ UNCHANGED <<src, pc, watcher>>

ScanNext == New \/ TokenizeOther \/ ScanBegin \/ ScanIter

\* the tokenizer with the loop of read_string run one iteration at a time
ScanSpec == Init /\ [][ScanNext]_vars

(* ------------------------------------------------------------------ *)
(* The container status watcher (src/watchers/container_status.rs)     *)
(* ------------------------------------------------------------------ *)
\* enum ContainerStatus
ContainerStatus ==
    {"Created", "Running", "Restarting", "Exited", "Paused", "Dead", "Unknown"}

\* the ids `docker run -d` has printed for the containers of this run
Ids == {"4f2a", "9c01"}

\* the texts the mapper names, as sequences of characters
created == <<99, 114, 101, 97, 116, 101, 100>>
running == <<114, 117, 110, 110, 105, 110, 103>>
restarting == <<114, 101, 115, 116, 97, 114, 116, 105, 110, 103>>
exited == <<101, 120, 105, 116, 101, 100>>
paused == <<112, 97, 117, 115, 101, 100>>
dead == <<100, 101, 97, 100>>

\* a state of docker the mapper does not name, and `Running`
removing == <<114, 101, 109, 111, 118, 105, 110, 103>>
Running == <<82, 117, 110, 110, 105, 110, 103>>

\* char::is_whitespace (the White_Space property)
IsWhiteSpace(ch) ==
    \/ ch \in 9..13
    \/ ch \in {32, 133, 160, 5760, 8232, 8233, 8239, 8287, 12288}
    \/ ch \in 8192..8202

RECURSIVE trim_start(_)
\* str::trim_start
trim_start(t) ==
    IF t # << >> /\ IsWhiteSpace(t[1]) THEN trim_start(Tail(t)) ELSE t

RECURSIVE trim_end(_)
\* str::trim_end
trim_end(t) ==
    IF t # << >> /\ IsWhiteSpace(t[Len(t)]) THEN trim_end(SubSeq(t, 1, Len(t) - 1)) ELSE t

\* str::trim
trim(t) == trim_end(trim_start(t))

\* ContainerStatusWatcher::container_status_mapper
container_status_mapper(status) ==
    IF status = created THEN "Created"
    ELSE IF status = running THEN "Running"
    ELSE IF status = restarting THEN "Restarting"
    ELSE IF status = exited THEN "Exited"
    ELSE IF status = paused THEN "Paused"
    ELSE IF status = dead THEN "Dead"
    ELSE "Unknown"

\* Ok(Output { status, stdout }) of `command.output().await`, stdout as
\* String::from_utf8_lossy reads it
Output(success, stdout) == [ok |-> TRUE, success |-> success, stdout |-> stdout]

\* Err(_) of `command.output().await`: docker could not be run
SpawnError == [ok |-> FALSE, success |-> FALSE, stdout |-> << >>]

\* what `docker inspect --format {{.State.Status}} id` prints when it succeeds:
\* a state and a line feed, and texts around the ones the mapper names
Stdouts ==
    { created \o <<LF>>, running \o <<LF>>, restarting \o <<LF>>, exited \o <<LF>>,
      paused \o <<LF>>, dead, removing \o <<LF>>, Running \o <<LF>>, << >>,
      <<TAB, SPACE>> \o exited \o <<SPACE, CR, LF>>, running \o <<SPACE>> \o exited }

\* the results of `command.output().await`
Outputs ==
    { Output(TRUE, t) : t \in Stdouts }
        \cup { Output(FALSE, << >>), Output(FALSE, running \o <<LF>>), SpawnError }

\* the status of an entry after the body of the loop of check_status has run
\* on it with the output out
Inspected_always(status, out) == container_status_mapper(trim(out.stdout))

\* the status of an entry after the body of the loop of check_status has run
\* on it with the output out
Inspected(status, out) ==
    IF out.success
    THEN LET new_container_status == container_status_mapper(trim(out.stdout))
         IN  IF new_container_status # status THEN new_container_status ELSE status
    ELSE status

\* HashMap::insert
insert(map, k, v) == [id \in DOMAIN map \cup {k} |-> IF id = k THEN v ELSE map[id]]

\* the containers Container::new builds: `status: &ContainerStatus::Created`
Containers == [id : Ids, status : {"Created"}]

\* Container::get_status
get_status(container) == container.status

\* check_status holds the guard of `containers.await`
PassOn == pass.at \in {"iter", "inspect", "unwind"}

\* check_status up to the loop: `self.containers.lock()` awaited, iter_mut()
CheckLock ==
    /\ pass.at = "sleep"
    /\ lock = "free"
    /\ lock' = "check_status"
    /\ pass' = [at |-> "iter", first |-> containers, todo |-> DOMAIN containers,
                cur |-> "", seen |-> << >>]
    /\ UNCHANGED <<tokenizer, containers, adder>>

\* the iterator yields an entry, in the order of the HashMap, and the body
\* runs up to `command.output().await`
CheckInspect ==
    /\ pass.at = "iter"
    /\ \E id \in pass.todo :
          pass' = [pass EXCEPT !.at = "inspect", !.cur = id, !.todo = @ \ {id}]
    /\ UNCHANGED <<tokenizer, containers, lock, adder>>

\* the command completes: unwrap, and the rest of the body of the loop
CheckOutput ==
    /\ pass.at = "inspect"
    /\ \E out \in Outputs :
          /\ pass' = [pass EXCEPT !.at = IF out.ok THEN "iter" ELSE "unwind",
                                  !.seen = @ @@ (pass.cur :> out)]
          /\ containers' =
                IF out.ok
                THEN [containers EXCEPT ![pass.cur] = Inspected(@, out)]
                ELSE containers
    /\ UNCHANGED <<tokenizer, lock, adder>>

\* the iterator is exhausted: the guard is dropped, check_status returns and
\* the task sleeps
CheckReturn ==
    /\ pass.at = "iter"
    /\ pass.todo = {}
    /\ lock' = "free"
    /\ pass' = NoPass
    /\ UNCHANGED <<tokenizer, containers, adder>>

\* the panic of unwrap unwinds check_status, which drops the guard, and ends
\* the task
CheckPanic ==
    /\ pass.at = "unwind"
    /\ lock' = "free"
    /\ pass' = [NoPass EXCEPT !.at = "panicked"]
    /\ UNCHANGED <<tokenizer, containers, adder>>

\* a call add_container(container), up to `self.containers.lock()`
AddCall ==
    /\ adder.at = "idle"
    /\ \E container \in Containers :
          adder' = [at |-> "lock", id |-> container.id,
                    status |-> get_status(container), mid |-> FALSE]
    /\ UNCHANGED <<tokenizer, containers, lock, pass>>

\* `.lock().await` of add_container returns the guard
AddLock ==
    /\ adder.at = "lock"
    /\ lock = "free"
    /\ lock' = "add_container"
    /\ adder' = [adder EXCEPT !.at = "insert"]
    /\ UNCHANGED <<tokenizer, containers, pass>>

\* `.insert(container.clone().id, container.get_status())`, and the guard is
\* dropped at the end of the statement
AddInsert ==
    /\ adder.at = "insert"
    /\ containers' = insert(containers, adder.id, adder.status)
    /\ lock' = "free"
    /\ adder' = [adder EXCEPT !.at = "idle", !.mid = PassOn]
    /\ UNCHANGED <<tokenizer, pass>>

\* a watcher with no tokenizer at work
WatchInit ==
    /\ src = CharIndices(<< >>)
    /\ chars = 0
    /\ pc = "new"
    /\ calls = << >>
    /\ scan = NoScan
    /\ WatcherNew

WatchNext ==
    \/ CheckLock
    \/ CheckInspect
    \/ CheckOutput
    \/ CheckReturn
    \/ CheckPanic
    \/ AddCall
    \/ AddLock
    \/ AddInsert

\* the task of main that polls check_status, and callers of add_container
WatchSpec == WatchInit /\ [][WatchNext]_vars

(* ------------------------------------------------------------------ *)
(* Vocabulary of the properties                                        *)
(* ------------------------------------------------------------------ *)
Text == [ k \in 1..Len(src) |-> src[k].ch ]
CallIdx == 1..Len(calls)
IsNone(k) == calls[k].result.kind = "None"
IsToken(k) == calls[k].result.kind = "Token"
IsErr(k) == calls[k].result.kind = "Err"
IsString(k) == IsToken(k) /\ calls[k].result.token.type = "String"

\* the first character a call met: (offset, character), or none
FirstCh(k) == peek_next(src, calls[k].from)

\* some call returned Ok(None) and every call before the first such call
\* returned a token
FirstNoneIdx == CHOOSE k \in CallIdx : IsNone(k) /\ \A j \in 1..(k - 1) : ~ IsNone(j)
FullyTokenized ==
    /\ \E k \in CallIdx : IsNone(k)
    /\ \A j \in 1..(FirstNoneIdx - 1) : IsToken(j)

\* the spans returned before the first Ok(None) make up exactly [b, source.len())
Covers(b) ==
    LET n == FirstNoneIdx - 1
        sp(j) == calls[j].result.span
    IN  /\ n = 0 => b = SrcLen(src)
        /\ n > 0 => sp(1).start = b /\ sp(n).end = SrcLen(src)
        /\ \A j \in 1..n : sp(j).start <= sp(j).end /\ sp(j).end <= SrcLen(src)
        /\ \A j \in 2..n : sp(j).start = sp(j - 1).end

\* bytes of the byte-order mark the source begins with
BomBytes == IF Len(src) > 0 /\ src[1].ch = BOM THEN Utf8Len(BOM) ELSE 0

(* ------------------------------------------------------------------ *)
(* C1                                                                  *)
(* ------------------------------------------------------------------ *)
\* C1 as stated: when every call up to the first Ok(None) returned a token, the
\* spans in order make up [0, source.len()): the first starts at 0, each later
\* one starts at the end of the one before, start <= end <= source.len(), and
\* the last ends at source.len().
C1_SpansFromZero == FullyTokenized => Covers(0)

\* C1, amended: the spans make up [b, source.len()), where b is 3, the length
\* of the byte-order mark, when the source begins with one, and 0 otherwise.
C1_SpansAfterBom == FullyTokenized => Covers(BomBytes)

C1_Witness ==
    /\ FullyTokenized
    /\ BomBytes = 3
    /\ FirstNoneIdx >= 3
    /\ \E j \in 1..(FirstNoneIdx - 1) : IsString(j)

(* ------------------------------------------------------------------ *)
(* C2                                                                  *)
(* ------------------------------------------------------------------ *)
\* C2: the raw lexeme `src` of every String token returned is exactly the
\* slice of the source that the span returned with it covers.
C2_LexemeIsSpanSlice ==
    \A k \in CallIdx :
        IsString(k) =>
            LET r == calls[k].result
            IN  r.token.src = Slice(src, r.span.start, r.span.end)

\* a multi-line string closed by a run of five delimiters at the end of the
\* input, not at the start of the source
C2_Witness ==
    \E k \in CallIdx :
        /\ IsString(k)
        /\ calls[k].result.token.multiline
        /\ calls[k].result.span.start > 0
        /\ calls[k].to = Len(src)
        /\ LET v == calls[k].result.token.value.str
           IN  Len(v) >= 2 /\ v[Len(v)] = DQUOTE /\ v[Len(v) - 1] = DQUOTE

(* ------------------------------------------------------------------ *)
(* C3                                                                  *)
(* ------------------------------------------------------------------ *)
\* C3: every call of tokenize the drain loop makes (one made while a
\* character is left) consumes at least one character, whether it returns a
\* token or an error; so the loop makes at most as many calls as the source
\* has characters before no character is left.
C3_DrainTerminates ==
    /\ \A k \in CallIdx : calls[k].from < Len(src) /\ calls[k].to > calls[k].from
    /\ Len(calls) <= chars /\ chars <= Len(src)
    /\ (pc = "ready" /\ ~ is_last_char(src, chars)) => tokenize(src, chars).chars > chars

\* the loop has ended after three calls or more, one of which failed
C3_Witness ==
    /\ pc = "ready"
    /\ chars = Len(src)
    /\ Len(calls) >= 3
    /\ \E k \in CallIdx : IsErr(k)
    /\ \E k \in CallIdx : IsToken(k)

(* ------------------------------------------------------------------ *)
(* C4                                                                  *)
(* ------------------------------------------------------------------ *)
\* C4: a call returns Ok(None) exactly when no character was left when it was
\* made; after a call has returned Ok(None) every later call returns Ok(None);
\* and the byte offset of the cursor never decreases from one call to the next.
C4_NoneOnlyAtEnd ==
    /\ \A k \in CallIdx : IsNone(k) <=> calls[k].from = Len(src)
    /\ \A k \in CallIdx : \A j \in CallIdx : (IsNone(k) /\ j > k) => IsNone(j)
    /\ \A k \in CallIdx :
          /\ current(src, calls[k].from) <= current(src, calls[k].to)
          /\ k > 1 => calls[k].from = calls[k - 1].to
    /\ calls # << >> => chars = calls[Len(calls)].to

\* two calls answered Ok(None), after a token and an error
C4_Witness ==
    /\ \E k \in CallIdx : IsNone(k) /\ k < Len(calls) /\ IsNone(Len(calls))
    /\ \E k \in CallIdx : IsErr(k)
    /\ \E k \in CallIdx : IsToken(k)

(* ------------------------------------------------------------------ *)
(* C5                                                                  *)
(* ------------------------------------------------------------------ *)
\* the characters that begin a token: space, tab, line feed, '#', the
\* punctuators = . , : + { } [ ], the quotes, ASCII letters, digits, '-', '_'
BeginsToken(ch) ==
    \/ ch \in {SPACE, TAB, LF, HASH, EQUALS, PERIOD, COMMA, COLON, PLUS,
               LBRACE, RBRACE, LBRACKET, RBRACKET, SQUOTE, DQUOTE, 45, 95}
    \/ ch \in 48..57
    \/ ch \in 65..90
    \/ ch \in 97..122

\* C5: a call that meets, at the start of a token, a character that begins no
\* token returns Unexpected with the byte offset of that character and the
\* character, and consumes exactly that one character.
C5_UnexpectedConsumesOne ==
    \A k \in CallIdx :
        LET c == FirstCh(k)
        IN  (c.some /\ ~ BeginsToken(c.ch)) =>
                /\ calls[k].result = ResErr(Unexpected(c.i, c.ch))
                /\ calls[k].to = calls[k].from + 1

\* a bare carriage return and a byte-order mark, neither at the start of the
\* source, were reported, and the call after each began right behind it
C5_Witness ==
    /\ \E k \in CallIdx :
          /\ IsErr(k) /\ calls[k].result.err.e = "Unexpected"
          /\ calls[k].result.err.ch = CR
          /\ calls[k].from > 0
          /\ k < Len(calls)
          /\ calls[k + 1].from = calls[k].from + 1
    /\ \E k \in CallIdx :
          /\ IsErr(k) /\ calls[k].result.err.e = "Unexpected"
          /\ calls[k].result.err.ch = BOM
          /\ k < Len(calls)
          /\ calls[k + 1].result.kind # "None"
          /\ FirstCh(k + 1).i = calls[k].result.err.at + 3

(* ------------------------------------------------------------------ *)
(* C6                                                                  *)
(* ------------------------------------------------------------------ *)
\* the characters not yet consumed when call k was made
Rest(k) == SubSeq(Text, calls[k].from + 1, Len(src))

IsUnterminated(k) == IsErr(k) /\ calls[k].result.err.e = "UnterminatedString"

\* texts that end inside a string: one or three opening delimiters, a plain
\* body, and then nothing, a backslash, an unfinished \u escape, or (after
\* three opening delimiters) one or two delimiters
UnclosedShapes ==
    { Run(d, o) \o plain \o hang :
        d \in {SQUOTE, DQUOTE}, o \in {1, 3},
        plain \in { << >>, <<122>>, <<233>>, <<97, 98, 99>> },
        hang \in { << >>, <<BACKSLASH>>, <<BACKSLASH, 117, 48>> } }
    \cup
    { Run(d, 3) \o plain \o Run(d, c) :
        d \in {SQUOTE, DQUOTE}, plain \in { << >>, <<122>>, <<233>> }, c \in {1, 2} }

\* C6: a call that runs out of input inside a string returns UnterminatedString
\* with the byte offset of the first opening delimiter; and every call that
\* returns UnterminatedString began at a quote, carries the offset of that
\* quote, leaves no character unconsumed, and is followed by Ok(None).
C6_UnterminatedAtOpening ==
    \A k \in CallIdx :
        /\ Rest(k) \in UnclosedShapes =>
              calls[k].result = ResErr(UnterminatedString(FirstCh(k).i))
        /\ IsUnterminated(k) =>
              /\ FirstCh(k).some
              /\ FirstCh(k).ch \in {SQUOTE, DQUOTE}
              /\ calls[k].result.err.at = FirstCh(k).i
              /\ calls[k].to = Len(src)
              /\ k < Len(calls) => IsNone(k + 1)

\* the input ended inside the digits of a \u escape of a multi-line string that
\* does not begin the source, and the next call returned Ok(None)
C6_Witness ==
    \E k \in CallIdx :
        /\ Rest(k) = <<DQUOTE, DQUOTE, DQUOTE, 233, BACKSLASH, 117, 48>>
        /\ IsUnterminated(k)
        /\ calls[k].result.err.at = 4
        /\ k < Len(calls)
        /\ IsNone(k + 1)

(* ------------------------------------------------------------------ *)
(* Reference decoding of a string body                                 *)
(* ------------------------------------------------------------------ *)
Drop(b, n) == SubSeq(b, n + 1, Len(b))

\* the body of a String token: its lexeme without the opening delimiter(s) and
\* the last one (three, when multi-line) of the closing delimiters
Body(tok) ==
    LET o == IF tok.multiline THEN 3 ELSE 1
    IN  SubSeq(tok.src, o + 1, Len(tok.src) - o)

IsBasic(tok) == tok.src[1] = DQUOTE

TrimFirstLF(b) == IF b # << >> /\ b[1] = LF THEN Tail(b) ELSE b

\* the body after the trim of a multi-line string
TrimmedBody(tok) == IF tok.multiline THEN TrimFirstLF(Body(tok)) ELSE Body(tok)

CountLF(b) == Cardinality({ j \in 1..Len(b) : b[j] = LF })

\* the character of a one-letter escape: \" \\ \b \f \n \r \t
SimpleEscapes == {34, 92, 98, 102, 110, 114, 116}
RefSimple(c) ==
    CASE c = 34 -> 34 [] c = 92 -> 92 [] c = 98 -> 8 [] c = 102 -> 12
      [] c = 110 -> 10 [] c = 114 -> 13 [] c = 116 -> 9

RefDigit(c) ==
    IF c \in 48..57 THEN c - 48 ELSE IF c \in 65..70 THEN c - 55 ELSE c - 87

RECURSIVE RefHex(_)
\* the number a sequence of hexadecimal digits denotes
RefHex(ds) ==
    IF ds = << >> THEN 0
    ELSE RefHex(SubSeq(ds, 1, Len(ds) - 1)) * 16 + RefDigit(ds[Len(ds)])

IsBlank(c) == c \in {SPACE, TAB, LF}

RECURSIVE BlankRun(_)
\* the length of the longest prefix of b made of spaces, tabs and line feeds
BlankRun(b) == IF b # << >> /\ IsBlank(b[1]) THEN 1 + BlankRun(Tail(b)) ELSE 0

\* what a line continuation (a backslash and the run of blanks after it)
\* gives: nothing ("skip"), the line feeds of run ("lfs"), or exactly one
\* character, a line feed ("one")
Continuation(run, mode) ==
    IF mode = "skip" THEN << >>
    ELSE IF mode = "lfs" THEN SelectSeq(run, LAMBDA c : c = LF)
    ELSE <<LF>>

RECURSIVE RefDecode(_, _)
\* the decoded value of the body b of a basic string: each escape replaced by
\* its character, each line continuation by Continuation, every other
\* character kept
RefDecode(b, mode) ==
    IF b = << >> THEN << >>
    ELSE IF b[1] # BACKSLASH \/ Len(b) = 1 THEN <<b[1]>> \o RefDecode(Tail(b), mode)
    ELSE IF b[2] \in SimpleEscapes THEN <<RefSimple(b[2])>> \o RefDecode(Drop(b, 2), mode)
    ELSE IF b[2] = 117 THEN <<RefHex(SubSeq(b, 3, 6))>> \o RefDecode(Drop(b, 6), mode)
    ELSE IF b[2] = 85 THEN <<RefHex(SubSeq(b, 3, 10))>> \o RefDecode(Drop(b, 10), mode)
    ELSE IF IsBlank(b[2])
    THEN LET n == BlankRun(Tail(b))
         IN  Continuation(SubSeq(b, 2, n + 1), mode) \o RefDecode(Drop(b, n + 1), mode)
    ELSE <<b[1]>> \o RefDecode(Tail(b), mode)

\* the decoded value the body of a token stands for
RefValue(tok, mode) ==
    IF IsBasic(tok) THEN RefDecode(TrimmedBody(tok), mode) ELSE TrimmedBody(tok)

(* ------------------------------------------------------------------ *)
(* C7                                                                  *)
(* ------------------------------------------------------------------ *)
\* C7 as stated: in a multi-line string of either kind a line feed right after
\* the opening delimiter is left out of the decoded value, and every later
\* line feed of the body is kept.
C7_EveryLaterLfKept ==
    \A k \in CallIdx :
        (IsString(k) /\ calls[k].result.token.multiline) =>
            LET tok == calls[k].result.token
            IN  tok.value.str = RefValue(tok, "lfs")

\* C7, amended: a line feed right after the opening delimiter is left out of
\* the decoded value, and every later line feed of the body is kept, except
\* those a line continuation of a basic string skips.
C7_FirstLfTrimmed ==
    \A k \in CallIdx :
        (IsString(k) /\ calls[k].result.token.multiline) =>
            LET tok == calls[k].result.token
            IN  /\ tok.value.str = RefValue(tok, "skip")
                /\ ~ IsBasic(tok) => CountLF(tok.value.str) = CountLF(TrimFirstLF(Body(tok)))

\* a multi-line string whose body begins with a line feed and holds a later
\* one: the first is gone and the later one is in the value
C7_Witness ==
    \E k \in CallIdx :
        /\ IsString(k)
        /\ calls[k].result.token.multiline
        /\ LET tok == calls[k].result.token
           IN  /\ Body(tok) # << >>
               /\ Body(tok)[1] = LF
               /\ CountLF(Body(tok)) = 2
               /\ CountLF(tok.value.str) = 1
               /\ tok.value.str[1] # LF

(* ------------------------------------------------------------------ *)
(* C8                                                                  *)
(* ------------------------------------------------------------------ *)
\* no escape: a literal string, or a basic string without a backslash
NoEscapes(tok) ==
    ~ IsBasic(tok) \/ \A j \in 1..Len(Body(tok)) : Body(tok)[j] # BACKSLASH

\* no carriage return followed by a line feed in the body
NoCRLF(tok) ==
    \A j \in 1..(Len(Body(tok)) - 1) : ~ (Body(tok)[j] = CR /\ Body(tok)[j + 1] = LF)

\* a multi-line string closed by exactly three delimiters
PlainClose(tok) ==
    tok.multiline => (Body(tok) = << >> \/ Body(tok)[Len(Body(tok))] # tok.src[1])

\* v occurs in the source
IsSubstringOfSource(v) ==
    \E a \in 0..Len(Text) : a + Len(v) <= Len(Text) /\ SubSeq(Text, a + 1, a + Len(v)) = v

\* C8: the decoded value of a String token without escapes, without CR LF and
\* (if multi-line) without extra closing delimiters is borrowed from the
\* source, not an owned buffer: a buffer is built only for a string that
\* needs a transformation.
C8_ZeroCopy ==
    \A k \in CallIdx :
        IsString(k) =>
            LET tok == calls[k].result.token
            IN  (NoEscapes(tok) /\ NoCRLF(tok) /\ PlainClose(tok)) =>
                    /\ tok.value.borrowed
                    /\ IsSubstringOfSource(tok.value.str)

\* a multi-line string of two characters or more, not at the start of the
\* source, with a trimmed line feed, was returned borrowed
C8_Witness ==
    \E k \in CallIdx :
        /\ IsString(k)
        /\ LET tok == calls[k].result.token
           IN  /\ NoEscapes(tok) /\ NoCRLF(tok) /\ PlainClose(tok)
               /\ tok.multiline
               /\ tok.value.borrowed
               /\ Len(tok.value.str) >= 2
               /\ Len(Body(tok)) > Len(tok.value.str)
               /\ calls[k].result.span.start > 0

(* ------------------------------------------------------------------ *)
(* C9                                                                  *)
(* ------------------------------------------------------------------ *)
\* C9 as stated: the decoded value of a basic string is its body with every
\* escape sequence replaced by exactly one character and every other
\* character kept, in order.
C9_EachEscapeOneChar ==
    \A k \in CallIdx :
        (IsString(k) /\ IsBasic(calls[k].result.token)) =>
            LET tok == calls[k].result.token
            IN  tok.value.str = RefDecode(TrimmedBody(tok), "one")

\* C9, amended: the decoded value of a basic string is its body (after the
\* trimmed first line feed of a multi-line string) with each escape \" \\ \b
\* \f \n \r \t \uXXXX \UXXXXXXXX replaced by its one character, each line
\* continuation of a multi-line string replaced by nothing, and every other
\* character kept, in order.
C9_EscapesDecoded ==
    \A k \in CallIdx :
        (IsString(k) /\ IsBasic(calls[k].result.token)) =>
            LET tok == calls[k].result.token
            IN  tok.value.str = RefDecode(TrimmedBody(tok), "skip")

\* "a\nb" was decoded to a, a line feed, b
C9_Witness ==
    \E k \in CallIdx :
        /\ IsString(k)
        /\ calls[k].result.token.src = <<DQUOTE, 97, BACKSLASH, 110, 98, DQUOTE>>
        /\ calls[k].result.token.value = [borrowed |-> FALSE, str |-> <<97, LF, 98>>]

(* ------------------------------------------------------------------ *)
(* C10                                                                 *)
(* ------------------------------------------------------------------ *)
\* C10: Tokenizer::new consumes one byte-order mark when the source begins
\* with one and nothing otherwise: the first call starts right behind that one
\* mark, and no token or error is about it.
C10_NewEatsOneBom ==
    pc = "ready" =>
        /\ (IF calls = << >> THEN chars ELSE calls[1].from)
              = (IF Len(src) > 0 /\ src[1].ch = BOM THEN 1 ELSE 0)
        /\ \A k \in CallIdx :
              /\ IsToken(k) => calls[k].result.span.start >= BomBytes
              /\ IsErr(k) => calls[k].result.err.at >= BomBytes

\* the source begins with two byte-order marks, and the first call reported the
\* second one, at offset 3
C10_Witness ==
    /\ pc = "ready"
    /\ Len(src) >= 2
    /\ src[1].ch = BOM
    /\ src[2].ch = BOM
    /\ calls # << >>
    /\ calls[1].result = ResErr(Unexpected(3, BOM))

(* ------------------------------------------------------------------ *)
(* Vocabulary of the string scans                                      *)
(* ------------------------------------------------------------------ *)
\* call k began at a quote
OpensString(k) == FirstCh(k).some /\ FirstCh(k).ch \in {SQUOTE, DQUOTE}

\* the quote call k began at
Delim(k) == FirstCh(k).ch

\* call k began at three quotes of one kind
OpensMultiline(k) ==
    /\ OpensString(k)
    /\ Len(Rest(k)) >= 3
    /\ Rest(k)[2] = Delim(k)
    /\ Rest(k)[3] = Delim(k)

\* the character of the source at byte offset i, 0 when none begins there
CharAt(i) ==
    IF \E j \in 1..Len(src) : src[j].i = i
    THEN src[CHOOSE j \in 1..Len(src) : src[j].i = i].ch
    ELSE 0

IsErrOf(k, e) == IsErr(k) /\ calls[k].result.err.e = e

(* ------------------------------------------------------------------ *)
(* C11                                                                 *)
(* ------------------------------------------------------------------ *)
\* the body of tok holds a carriage return right before a line feed
HasCRLF(tok) == ~ NoCRLF(tok)

\* v with every carriage return that stands right before a line feed left out
RECURSIVE FoldCRLF(_)
FoldCRLF(v) ==
    IF v = << >> THEN << >>
    ELSE IF Len(v) >= 2 /\ v[1] = CR /\ v[2] = LF THEN FoldCRLF(Tail(v))
    ELSE <<v[1]>> \o FoldCRLF(Tail(v))

\* C11 as stated: inside a multi-line string of either kind a carriage return
\* right before a line feed is accepted: the scan does not fail at that
\* carriage return, and the token returned for a body with such a pair has a
\* decoded value with one line feed for the pair, held in an owned buffer.
C11_CrLfNormalized ==
    \A k \in CallIdx :
        /\ (OpensMultiline(k) /\ IsErrOf(k, "InvalidCharInString")
              /\ calls[k].result.err.ch = CR)
              => CharAt(calls[k].result.err.at + 1) # LF
        /\ (IsString(k) /\ calls[k].result.token.multiline
              /\ HasCRLF(calls[k].result.token))
              => LET tok == calls[k].result.token
                 IN  /\ ~ tok.value.borrowed
                     /\ tok.value.str = RefValue([tok EXCEPT !.src = FoldCRLF(tok.src)], "skip")

(* ------------------------------------------------------------------ *)
(* C12                                                                 *)
(* ------------------------------------------------------------------ *)
\* the index in src of the character that begins at byte offset i
IdxAt(i) == CHOOSE j \in 1..Len(src) : src[j].i = i

\* basic strings cut right after a \u or \U escape whose digits are valid and
\* whose value is a surrogate (D800) or above 10FFFF (00110000)
BadValueShapes ==
    { Run(DQUOTE, o) \o plain \o esc :
        o \in {1, 3}, plain \in { << >>, <<122>>, <<233>> },
        esc \in { <<BACKSLASH, 117, 68, 56, 48, 48>>,
                  <<BACKSLASH, 85, 48, 48, 49, 49, 48, 48, 48, 48>> } }

\* call k returned InvalidEscapeValue(o, v) for the escape whose letter u or U
\* stands `shift` characters before offset o: a backslash, the letter, 4 (u) or
\* 8 (U) hexadecimal digits that denote v, and v is no scalar value
ReportsEscapeValue(k, shift) ==
    LET o == calls[k].result.err.at
        j == IdxAt(o) - shift
        len == IF src[j].ch = 117 THEN 4 ELSE 8
        ds == [ d \in 1..len |-> src[j + d].ch ]
    IN  /\ \E n \in 1..Len(src) : src[n].i = o
        /\ j >= 2
        /\ src[j].ch \in {117, 85}
        /\ src[j - 1].ch = BACKSLASH
        /\ j + len <= Len(src)
        /\ \A d \in 1..len : IsHexDigit(ds[d])
        /\ calls[k].result.err.val = RefHex(ds)
        /\ ~ IsScalarValue(RefHex(ds))

\* call k, which met a text of BadValueShapes, returned InvalidEscapeValue with
\* the offset of the character `shift` after the letter of the escape
MeetsEscapeValue(k, shift) ==
    \A sh \in BadValueShapes :
        (Len(Rest(k)) >= Len(sh) /\ SubSeq(Rest(k), 1, Len(sh)) = sh) =>
            LET len == IF sh[Len(sh) - 4] = 117 THEN 4 ELSE 8
                j == calls[k].from + Len(sh) - len
            IN  /\ IsErrOf(k, "InvalidEscapeValue")
                /\ calls[k].result.err.at = src[j + shift].i
                /\ calls[k].result.err.val = RefHex(SubSeq(sh, Len(sh) - len + 1, Len(sh)))

\* C12 as stated: a \u or \U escape of a basic string whose 4 (8) digits are
\* hexadecimal and whose value is no Unicode scalar value makes tokenize return
\* InvalidEscapeValue(o, value), o the byte offset of the first digit.
C12_ValueAtFirstDigit ==
    \A k \in CallIdx :
        /\ IsErrOf(k, "InvalidEscapeValue") => ReportsEscapeValue(k, 1)
        /\ MeetsEscapeValue(k, 1)

\* C12, amended: tokenize returns InvalidEscapeValue(o, value), o the byte
\* offset of the letter u or U of the escape (the character after the
\* backslash) and value the number the digits denote.
C12_ValueAtEscapeLetter ==
    \A k \in CallIdx :
        /\ IsErrOf(k, "InvalidEscapeValue") => ReportsEscapeValue(k, 0)
        /\ MeetsEscapeValue(k, 0)

\* the surrogate D800 was reported behind a 2-byte character of a multi-line
\* string that does not begin the source
C12_Witness ==
    \E k \in CallIdx :
        /\ calls[k].from > 0
        /\ Len(Rest(k)) >= 4
        /\ SubSeq(Rest(k), 1, 4) = <<DQUOTE, DQUOTE, DQUOTE, 233>>
        /\ calls[k].result = ResErr(InvalidEscapeValue(FirstCh(k).i + 6, 55296))

(* ------------------------------------------------------------------ *)
(* C13                                                                 *)
(* ------------------------------------------------------------------ *)
\* an ASCII hexadecimal digit: 0-9, A-F, a-f
RefIsHex(c) == c \in (48..57) \cup (65..70) \cup (97..102)

\* the digits a \u (4) or \U (8) escape takes
EscapeLen(c) == IF c = 117 THEN 4 ELSE 8

\* call k began at a basic string that holds, after one or three opening
\* quotes and at most one plain character (z or e-acute), a backslash, the
\* letter u or U, fewer hexadecimal digits than the escape takes, and then a
\* character that is no hexadecimal digit; BadDigitIdx is the index of that
\* character in Rest(k)
EscapeIdx(k) ==
    LET r == Rest(k)
        o == IF OpensMultiline(k) THEN 3 ELSE 1
    IN  IF Len(r) > o /\ r[o + 1] \in {122, 233} THEN o + 2 ELSE o + 1

HexRun(k) ==
    LET r == Rest(k)
        b == EscapeIdx(k)
    IN  CHOOSE d \in 0..8 :
            /\ \A n \in 1..d : b + 1 + n <= Len(r) /\ RefIsHex(r[b + 1 + n])
            /\ d = 8 \/ b + 2 + d > Len(r) \/ ~ RefIsHex(r[b + 2 + d])

BadDigitIdx(k) == EscapeIdx(k) + 2 + HexRun(k)

MeetsBadDigit(k) ==
    LET r == Rest(k)
        b == EscapeIdx(k)
    IN  /\ OpensString(k)
        /\ Delim(k) = DQUOTE
        /\ ~ (Len(r) >= 2 /\ r[2] = DQUOTE /\ ~ OpensMultiline(k))
        /\ Len(r) >= b + 1
        /\ r[b] = BACKSLASH
        /\ r[b + 1] \in {117, 85}
        /\ HexRun(k) < EscapeLen(r[b + 1])
        /\ BadDigitIdx(k) <= Len(r)

\* basic strings with a character right after the last digit of an escape
AfterDigitsShapes ==
    { <<DQUOTE, BACKSLASH, 117, 48, 48, 52, 49, c, DQUOTE>> : c \in {49, 122} }
    \cup { <<DQUOTE, BACKSLASH, 85, 48, 48, 48, 49, 70, 54, 48, 48, c, DQUOTE>> : c \in {70, 122} }

StartsWith(k, sh) == Len(Rest(k)) >= Len(sh) /\ SubSeq(Rest(k), 1, Len(sh)) = sh

\* C13: a \u escape reads 4 and a \U escape 8 characters after the letter; the
\* first of them that is no ASCII hexadecimal digit makes tokenize return
\* InvalidHexEscape with its byte offset and the character, nothing after it
\* being consumed; and the character after the 4th (8th) digit is not part
\* of the escape: it is decoded on its own.
C13_HexReadsLen ==
    \A k \in CallIdx :
        /\ MeetsBadDigit(k) =>
              LET j == calls[k].from + BadDigitIdx(k)
              IN  /\ calls[k].result = ResErr(InvalidHexEscape(src[j].i, src[j].ch))
                  /\ calls[k].to = j
        /\ IsErrOf(k, "InvalidHexEscape") =>
              LET o == calls[k].result.err.at
                  j == IdxAt(o)
              IN  /\ \E n \in 1..Len(src) : src[n].i = o
                  /\ src[j].ch = calls[k].result.err.ch
                  /\ ~ RefIsHex(src[j].ch)
                  /\ calls[k].to = j
                  /\ \E d \in 0..7 :
                        /\ j - d - 2 > calls[k].from
                        /\ src[j - d - 2].ch = BACKSLASH
                        /\ src[j - d - 1].ch \in {117, 85}
                        /\ d < EscapeLen(src[j - d - 1].ch)
                        /\ \A n \in (j - d)..(j - 1) : RefIsHex(src[n].ch)
        /\ \A sh \in AfterDigitsShapes :
              StartsWith(k, sh) =>
                  /\ IsString(k)
                  /\ LET len == EscapeLen(sh[3])
                     IN  calls[k].result.token.value.str =
                             <<RefHex(SubSeq(sh, 4, 3 + len)), sh[4 + len]>>

\* "\uZZZZ" gave InvalidHexEscape at the first Z, offset 3
C13_Witness ==
    \E k \in CallIdx :
        /\ Text = <<DQUOTE, BACKSLASH, 117, 90, 90, 90, 90, DQUOTE>>
        /\ calls[k].result = ResErr(InvalidHexEscape(3, 90))
        /\ calls[k].to = 4

(* ------------------------------------------------------------------ *)
(* C14                                                                 *)
(* ------------------------------------------------------------------ *)
\* call k began at exactly two quotes of one kind: no third follows
OpensEmpty(k) ==
    /\ OpensString(k)
    /\ Len(Rest(k)) >= 2
    /\ Rest(k)[2] = Delim(k)
    /\ ~ OpensMultiline(k)

\* C14: a call that begins at exactly two delimiters returns at once a String
\* token with an empty decoded value, multiline = false, those two characters
\* as lexeme, and the cursor right behind them; a call that begins at three
\* delimiters consumes all three and reads in multi-line mode (a line feed
\* after them is no error, a token returned is multiline); a call that begins
\* at a single delimiter reads a single-line body that starts right behind it
\* (a line feed there is NewlineInString, a token returned is not multiline
\* and its lexeme begins with that one delimiter and the body).
C14_Opening ==
    \A k \in CallIdx :
        OpensString(k) =>
            LET r == Rest(k)
                d == Delim(k)
                i == FirstCh(k).i
            IN  /\ OpensEmpty(k) =>
                      /\ calls[k].result =
                            ResToken([start |-> i, end |-> i + 2],
                                     StringToken(<<d, d>>, [borrowed |-> TRUE, str |-> << >>], FALSE))
                      /\ calls[k].to = calls[k].from + 2
                /\ OpensMultiline(k) =>
                      /\ calls[k].to >= calls[k].from + 3
                      /\ ~ IsErrOf(k, "NewlineInString")
                      /\ IsString(k) =>
                            /\ calls[k].result.token.multiline
                            /\ Len(calls[k].result.token.src) >= 6
                /\ (~ OpensEmpty(k) /\ ~ OpensMultiline(k)) =>
                      /\ (Len(r) >= 2 /\ r[2] = LF) =>
                            calls[k].result = ResErr(NewlineInString(i + 1))
                      /\ IsString(k) =>
                            /\ ~ calls[k].result.token.multiline
                            /\ Len(calls[k].result.token.src) >= 3
                            /\ calls[k].result.token.src[2] # d

\* an empty string of two quotes before z, not at the start of the source,
\* was returned, and the next call began at z
C14_Witness ==
    \E k \in CallIdx :
        /\ calls[k].from > 0
        /\ OpensEmpty(k)
        /\ Len(Rest(k)) >= 3
        /\ Rest(k)[3] = 122
        /\ IsString(k)
        /\ calls[k].result.token.value.str = << >>
        /\ k < Len(calls)
        /\ calls[k + 1].from = calls[k].from + 2
        /\ IsToken(k + 1)

(* ------------------------------------------------------------------ *)
(* C15                                                                 *)
(* ------------------------------------------------------------------ *)
RECURSIVE RunLen(_, _, _)
\* how many characters d stand in a row in r from index j on
RunLen(r, j, d) == IF j <= Len(r) /\ r[j] = d THEN 1 + RunLen(r, j + 1, d) ELSE 0

RECURSIVE CloseAt(_, _, _, _)
\* the index in r, from j on, of the first run of `need` or more delimiters d,
\* 0 when there is none; in a basic string the character after a backslash
\* belongs to the escape and begins no run
CloseAt(r, j, d, need) ==
    IF j > Len(r) THEN 0
    ELSE IF r[j] = BACKSLASH /\ d = DQUOTE THEN CloseAt(r, j + 2, d, need)
    ELSE IF r[j] = d
    THEN (IF RunLen(r, j, d) >= need THEN j
          ELSE CloseAt(r, j + RunLen(r, j, d), d, need))
    ELSE CloseAt(r, j + 1, d, need)

Min(a, b) == IF a < b THEN a ELSE b

\* C15: a String token with a body ends at the first run of three or more
\* delimiters after the opening triple when multi-line, of which three, four
\* or five (never more) are consumed, and at the first delimiter after the
\* opening one when single-line; shorter runs before it are content.  Its
\* decoded value is the body between the opening delimiter(s) (after the
\* trimmed first line feed) and the last three (one) consumed delimiters:
\* that slice itself when the value is borrowed, that slice with its escapes
\* decoded when it is owned; so the delimiters of the shorter runs and the
\* one or two consumed beyond three are in the value.  A multi-line string
\* without a run of three delimiters gives no token.
C15_ClosingRun ==
    \A k \in CallIdx :
        (OpensString(k) /\ ~ OpensEmpty(k)) =>
            LET d == Delim(k)
                multi == OpensMultiline(k)
                o == IF multi THEN 3 ELSE 1
                r == Drop(Rest(k), o)
                c == CloseAt(r, 1, d, o)
                taken == IF multi THEN Min(RunLen(r, c, d), 5) ELSE 1
            IN  /\ IsString(k) =>
                      LET tok == calls[k].result.token
                      IN  /\ c > 0
                          /\ calls[k].to = calls[k].from + o + (c - 1) + taken
                          /\ tok.src = SubSeq(Rest(k), 1, o + (c - 1) + taken)
                          /\ tok.multiline = multi
                          /\ tok.value.borrowed => tok.value.str = TrimmedBody(tok)
                          /\ ~ tok.value.borrowed =>
                                tok.value.str = RefDecode(TrimmedBody(tok), "skip")
                /\ c = 0 => IsErr(k)

\* """a\n""b""""" gave the owned value a, line feed, two quotes, b, two
\* quotes: the run of two is content, of the run of five two are content
C15_Witness ==
    \E k \in CallIdx :
        /\ IsString(k)
        /\ calls[k].result.token.multiline
        /\ calls[k].result.token.value =
              [borrowed |-> FALSE, str |-> <<97, LF, DQUOTE, DQUOTE, 98, DQUOTE, DQUOTE>>]
        /\ calls[k].to = Len(src)

(* ------------------------------------------------------------------ *)
(* C16                                                                 *)
(* ------------------------------------------------------------------ *)
\* a Unicode scalar value
RefIsScalar(v) == v \in 0..55295 \/ v \in 57344..1114111

\* how many of the characters of r from index j on, at most len, are
\* hexadecimal digits in a row
HexDigitsAt(r, j, len) ==
    CHOOSE h \in 0..len :
        /\ \A n \in 0..(h - 1) : j + n <= Len(r) /\ RefIsHex(r[j + n])
        /\ h = len \/ j + h > Len(r) \/ ~ RefIsHex(r[j + h])

NoLf == [where |-> "none", idx |-> 0]

RECURSIVE FirstLf(_, _, _)
\* the first line feed of the single-line body r (from index j on, delimiter
\* d) that stands before the closing delimiter with only valid content before
\* it, and where it stands: in the body ("body"), right after a backslash
\* ("escape") or among the digits of a \u or \U escape ("digits")
FirstLf(r, j, d) ==
    IF j > Len(r) \/ r[j] = d THEN NoLf
    ELSE IF r[j] = LF THEN [where |-> "body", idx |-> j]
    ELSE IF r[j] = BACKSLASH /\ d = DQUOTE
    THEN (IF j + 1 > Len(r) THEN NoLf
          ELSE IF r[j + 1] = LF THEN [where |-> "escape", idx |-> j + 1]
          ELSE IF r[j + 1] \in SimpleEscapes THEN FirstLf(r, j + 2, d)
          ELSE IF r[j + 1] \in {117, 85}
          THEN LET len == EscapeLen(r[j + 1])
                   h == HexDigitsAt(r, j + 2, len)
               IN  IF h = len
                   THEN (IF RefIsScalar(RefHex(SubSeq(r, j + 2, j + 1 + len)))
                         THEN FirstLf(r, j + 2 + len, d) ELSE NoLf)
                   ELSE IF j + 2 + h <= Len(r) /\ r[j + 2 + h] = LF
                   THEN [where |-> "digits", idx |-> j + 2 + h]
                   ELSE NoLf
          ELSE NoLf)
    ELSE IF r[j] = TAB \/ (r[j] >= SPACE /\ r[j] # DEL) THEN FirstLf(r, j + 1, d)
    ELSE NoLf

\* call k began a single-line string
OpensSingleLine(k) == OpensString(k) /\ ~ OpensEmpty(k) /\ ~ OpensMultiline(k)

\* the first line feed call k met in a single-line string
LfOf(k) == FirstLf(Rest(k), 2, Delim(k))

\* the byte offset of the n-th character of Rest(k)
OffsetInRest(k, n) == src[calls[k].from + n].i

\* every NewlineInString is about a line feed of a single-line string
NewlineErrorsAreSingleLine ==
    \A k \in CallIdx :
        IsErrOf(k, "NewlineInString") =>
            /\ OpensSingleLine(k)
            /\ CharAt(calls[k].result.err.at) = LF

\* C16 as stated: any line feed inside a single-line string, literal or basic,
\* before its closing delimiter makes tokenize return NewlineInString with the
\* byte offset of that line feed; a multi-line string never gives this error.
C16_AnyLfIsNewlineInString ==
    /\ NewlineErrorsAreSingleLine
    /\ \A k \in CallIdx :
          (OpensSingleLine(k) /\ LfOf(k).where # "none") =>
              calls[k].result =
                  ResErr([e |-> "NewlineInString", at |-> OffsetInRest(k, LfOf(k).idx)])

\* C16, amended: a line feed the scanning loop meets in a single-line string
\* gives NewlineInString with its byte offset; a line feed right after a
\* backslash of a basic string gives InvalidEscape, and one among the digits
\* of a \u or \U escape gives InvalidHexEscape, with that offset and the line
\* feed; a multi-line string never gives NewlineInString.
C16_LoopLfIsNewlineInString ==
    /\ NewlineErrorsAreSingleLine
    /\ \A k \in CallIdx :
          OpensSingleLine(k) =>
              LET lf == LfOf(k)
                  at == OffsetInRest(k, lf.idx)
              IN  /\ lf.where = "body" =>
                        calls[k].result = ResErr([e |-> "NewlineInString", at |-> at])
                  /\ lf.where = "escape" =>
                        calls[k].result = ResErr([e |-> "InvalidEscape", at |-> at, ch |-> LF])
                  /\ lf.where = "digits" =>
                        calls[k].result = ResErr([e |-> "InvalidHexEscape", at |-> at, ch |-> LF])

\* a line feed behind a 2-byte character of a single-line string that does not
\* begin the source was reported, at the fourth byte of the string
C16_Witness ==
    \E k \in CallIdx :
        /\ calls[k].from > 0
        /\ OpensSingleLine(k)
        /\ LfOf(k) = [where |-> "body", idx |-> 3]
        /\ Rest(k)[2] = 233
        /\ calls[k].result = ResErr([e |-> "NewlineInString", at |-> FirstCh(k).i + 3])

(* ------------------------------------------------------------------ *)
(* Vocabulary of the followed scan                                     *)
(* ------------------------------------------------------------------ *)
\* the iterations of the loop of read_string done in the followed scan
Iters == 1..(Len(scan.ats) - 1)

\* iteration j was the last one: read_string returned from it
Returned(j) == ~ scan.on /\ j = Len(scan.ats) - 1

\* the call of tokenize the followed scan belongs to, once it has returned
ScanCall == CHOOSE k \in CallIdx : calls[k].from = scan.from

\* the characters iteration j consumed
Consumed(j) == SubSeq(Text, scan.ats[j] + 1, scan.ats[j + 1])

(* ------------------------------------------------------------------ *)
(* C17                                                                 *)
(* ------------------------------------------------------------------ *)
\* iteration j of a multi-line basic string began at a backslash that stands
\* right before a space, a tab or a line feed
AtContinuation(j) ==
    LET a == scan.ats[j]
    IN  /\ scan.multiline
        /\ scan.delim = DQUOTE
        /\ a + 2 <= Len(src)
        /\ src[a + 1].ch = BACKSLASH
        /\ src[a + 2].ch \in {SPACE, TAB, LF}

RECURSIVE HorizontalRun(_)
\* the length of the longest prefix of b made of spaces and tabs
HorizontalRun(b) ==
    IF b # << >> /\ b[1] \in {SPACE, TAB} THEN 1 + HorizontalRun(Tail(b)) ELSE 0

\* the characters behind the backslash iteration j began at
BehindBackslash(j) == SubSeq(Text, scan.ats[j] + 2, Len(src))

\* the spaces and tabs behind the backslash run up to a line feed or to the
\* end of the input
ReachesLf(j) ==
    LET b == BehindBackslash(j)
        h == HorizontalRun(b)
    IN  h = Len(b) \/ b[h + 1] = LF

\* iteration j skipped the backslash and the whole run of spaces, tabs and
\* line feeds behind it, added nothing to the buffer beyond materializing it
\* up to the backslash, and left the scan at the next other character
Skipped(j) ==
    LET a == scan.ats[j]
        v == scan.vals[j]
    IN  /\ ~ Returned(j)
        /\ scan.ats[j + 1] = a + 1 + BlankRun(BehindBackslash(j))
        /\ scan.vals[j + 1] =
              (IF v.kind = "Owned" THEN v
               ELSE Owned(Slice(src, v.start, src[a + 1].i)))

\* C17 as stated: in a multi-line basic string a backslash right before a
\* space, a tab or a line feed is always a line continuation: it and the
\* blanks through the first line feed and all further blanks are skipped,
\* nothing is added to the decoded value, and the scan resumes at the first
\* character that is no blank.
C17_BlankAfterBackslashSkips ==
    \A j \in Iters : AtContinuation(j) => Skipped(j)

\* C17, amended: it is a line continuation when the spaces and tabs behind
\* the backslash run up to a line feed (or to the end of the input); when
\* another character follows them, tokenize returns InvalidEscape with the
\* byte offset and the value of the character right behind the backslash.
C17_ContinuationNeedsLf ==
    \A j \in Iters :
        AtContinuation(j) =>
            IF ReachesLf(j) THEN Skipped(j)
            ELSE /\ Returned(j)
                 /\ calls[ScanCall].result =
                       ResErr([e |-> "InvalidEscape", at |-> src[scan.ats[j] + 2].i,
                               ch |-> src[scan.ats[j] + 2].ch])

\* behind z, a backslash, a line feed and a space were skipped up to the next
\* z, and the buffer was materialized as z
C17_Witness ==
    \E j \in Iters :
        /\ AtContinuation(j)
        /\ Skipped(j)
        /\ BehindBackslash(j)[1] = LF
        /\ BlankRun(BehindBackslash(j)) = 2
        /\ scan.ats[j + 1] < Len(src)
        /\ src[scan.ats[j + 1] + 1].ch = 122
        /\ scan.vals[j].kind = "NotEscaped"
        /\ scan.vals[j + 1] = Owned(<<122>>)

(* ------------------------------------------------------------------ *)
(* C18                                                                 *)
(* ------------------------------------------------------------------ *)
\* the delimiters the returning iteration j consumed beyond the closing
\* three (one, when single-line)
ExtraDelims(j) ==
    SubSeq(Consumed(j), 1, Len(Consumed(j)) - (IF scan.multiline THEN 3 ELSE 1))

\* C18: during the scan of one string the buffer never goes from Owned back
\* to NotEscaped: after an iteration that began with an owned buffer the
\* buffer is owned and holds what it held, followed by what the iteration
\* read (a plain character, a kept line feed, one or two embedded delimiters,
\* the character of an escape, nothing for a line continuation), and the
\* token returned holds it with the delimiters consumed beyond the closing
\* ones; the buffer is only reassigned to NotEscaped by the first iteration,
\* on a line feed of a multi-line string, when it is still NotEscaped.
C18_OwnedStaysOwned ==
    \A j \in Iters :
        LET v == scan.vals[j]
            w == scan.vals[j + 1]
        IN  /\ v.kind = "Owned" =>
                  /\ w.kind = "Owned"
                  /\ ~ Returned(j) =>
                        w.string = v.string \o RefDecode(Consumed(j), "skip")
                  /\ (Returned(j) /\ IsString(ScanCall)) =>
                        calls[ScanCall].result.token.value =
                            [borrowed |-> FALSE, str |-> v.string \o ExtraDelims(j)]
            /\ (w.kind = "NotEscaped" /\ w # v) =>
                  /\ v.kind = "NotEscaped"
                  /\ j = 1
                  /\ scan.multiline
                  /\ Consumed(j) = <<LF>>

\* the scan of """a\n""b""""" has returned: the buffer became owned at the
\* escape, in the second of five iterations, and the token holds a, line
\* feed, two quotes, b, two quotes
C18_Witness ==
    /\ ~ scan.on
    /\ Len(scan.vals) = 6
    /\ scan.vals[2].kind = "NotEscaped"
    /\ scan.vals[3] = Owned(<<97, LF>>)
    /\ scan.vals[5] = Owned(<<97, LF, DQUOTE, DQUOTE, 98>>)
    /\ IsString(ScanCall)
    /\ calls[ScanCall].result.token.value.str = <<97, LF, DQUOTE, DQUOTE, 98, DQUOTE, DQUOTE>>

(* ------------------------------------------------------------------ *)
(* C19                                                                 *)
(* ------------------------------------------------------------------ *)
IsOfType(k, type) == IsToken(k) /\ calls[k].result.token.type = type

\* an ASCII letter, a digit, '-' or '_'
RefKeyChar(c) == c \in (48..57) \cup (65..90) \cup (97..122) \cup {45, 95}

\* the token call k returned is the longest run of characters of `class`
\* that begins where the call began, and it is not empty
IsMaximalRun(k, class(_)) ==
    LET text == calls[k].result.token.text
        n == Len(text)
    IN  /\ n >= 1
        /\ \A j \in 1..n : class(text[j])
        /\ calls[k].to = calls[k].from + n
        /\ text = SubSeq(Text, calls[k].from + 1, calls[k].to)
        /\ calls[k].to < Len(src) => ~ class(src[calls[k].to + 1].ch)
        /\ calls[k].result.span =
              [start |-> FirstCh(k).i, end |-> FirstCh(k).i + n]

IsBlankChar(c) == c \in {SPACE, TAB}

\* C19: a WhiteSpace token is a non-empty run of spaces and tabs, a Keylike
\* token a non-empty run of ASCII letters, digits, '-' and '_', each followed
\* by no further character of its class; so no two WhiteSpace tokens and no
\* two Keylike tokens are returned by successive calls; and three spaces give
\* one WhiteSpace token with span [0, 3) and then Ok(None).
C19_MaximalRuns ==
    /\ \A k \in CallIdx :
          /\ IsOfType(k, "WhiteSpace") => IsMaximalRun(k, IsBlankChar)
          /\ IsOfType(k, "Keylike") => IsMaximalRun(k, RefKeyChar)
          /\ (FirstCh(k).some /\ IsBlankChar(FirstCh(k).ch)) => IsOfType(k, "WhiteSpace")
          /\ (FirstCh(k).some /\ RefKeyChar(FirstCh(k).ch)) => IsOfType(k, "Keylike")
          /\ k > 1 => \A type \in {"WhiteSpace", "Keylike"} :
                          ~ (IsOfType(k - 1, type) /\ IsOfType(k, type))
    /\ (Text = <<SPACE, SPACE, SPACE>> /\ calls # << >>) =>
          /\ calls[1].result =
                ResToken([start |-> 0, end |-> 3],
                         [type |-> "WhiteSpace", text |-> <<SPACE, SPACE, SPACE>>])
          /\ \A k \in 2..Len(calls) : IsNone(k)

\* z, then a space and a tab: a Keylike token and one WhiteSpace token of
\* both blanks, and then Ok(None)
C19_Witness ==
    /\ Len(calls) = 3
    /\ IsOfType(1, "Keylike")
    /\ IsOfType(2, "WhiteSpace")
    /\ calls[2].result.token.text = <<SPACE, TAB>>
    /\ IsNone(3)

(* ------------------------------------------------------------------ *)
(* C20                                                                 *)
(* ------------------------------------------------------------------ *)
\* a character a comment runs over: a tab, or no control character below
\* U+0020
IsCommentChar(c) == c = TAB \/ c >= 32

RECURSIVE CommentRun(_)
\* the length of the longest prefix of b made of comment characters
CommentRun(b) ==
    IF b # << >> /\ IsCommentChar(b[1]) THEN 1 + CommentRun(Tail(b)) ELSE 0

\* C20: a call that begins at '#' returns a Comment token that runs over
\* every following tab and character from U+0020 on, up to the first other
\* control character or the end of the input; that character is not in the
\* comment and not consumed, so the next call returns a NewLine token (line
\* feed), Unexpected with that character (any other one), or Ok(None) (end of
\* the input).  Only a call that begins at '#' returns a Comment.
C20_CommentToEndOfLine ==
    \A k \in CallIdx :
        /\ IsOfType(k, "Comment") => FirstCh(k).some /\ FirstCh(k).ch = HASH
        /\ (FirstCh(k).some /\ FirstCh(k).ch = HASH) =>
              LET n == 1 + CommentRun(Tail(Rest(k)))
                  to == calls[k].from + n
              IN  /\ calls[k].to = to
                  /\ calls[k].result =
                        ResToken([start |-> FirstCh(k).i, end |-> current(src, to)],
                                 [type |-> "Comment", text |-> SubSeq(Rest(k), 1, n)])
                  /\ k < Len(calls) =>
                        IF to = Len(src) THEN IsNone(k + 1)
                        ELSE IF src[to + 1].ch = LF
                        THEN IsOfType(k + 1, "NewLine") /\ calls[k + 1].from = to
                        ELSE calls[k + 1].result =
                                 ResErr([e |-> "Unexpected", at |-> src[to + 1].i,
                                         ch |-> src[to + 1].ch])

\* the comment #<DEL><e-acute> stopped before a carriage return, which the
\* next call reported, and the call after that returned the NewLine token
C20_Witness ==
    /\ Len(calls) >= 3
    /\ IsOfType(1, "Comment")
    /\ calls[1].result.token.text = <<HASH, DEL, 233>>
    /\ calls[1].result.span = [start |-> 0, end |-> 4]
    /\ calls[2].result = ResErr([e |-> "Unexpected", at |-> 4, ch |-> CR])
    /\ IsOfType(3, "NewLine")

(* ------------------------------------------------------------------ *)
(* C21: a pass of check_status and the callers of add_container        *)
(* ------------------------------------------------------------------ *)
\* every character of t is white space
IsBlankText(t) == \A i \in 1..Len(t) : IsWhiteSpace(t[i])

\* the text t is the word w with nothing but white space around it
Says(t, w) ==
    \E i \in 1..(Len(t) + 1) :
        \E j \in i..(Len(t) + 1) :
            /\ SubSeq(t, i, j - 1) = w
            /\ IsBlankText(SubSeq(t, 1, i - 1))
            /\ IsBlankText(SubSeq(t, j, Len(t)))

\* the status docker reports with the text t: the six states the watcher
\* knows, and Unknown for any other text
StatusSaid(t) ==
    IF Says(t, created) THEN "Created"
    ELSE IF Says(t, running) THEN "Running"
    ELSE IF Says(t, restarting) THEN "Restarting"
    ELSE IF Says(t, exited) THEN "Exited"
    ELSE IF Says(t, paused) THEN "Paused"
    ELSE IF Says(t, dead) THEN "Dead"
    ELSE "Unknown"

\* the ids the running pass has inspected with a command that exited
\* successfully
Succeeded ==
    { id \in DOMAIN pass.seen : pass.seen[id].ok /\ pass.seen[id].success }

\* C21: while check_status runs it holds the lock of the map, from before its
\* first entry until it returns (or unwinds), and the map keeps the keys it had
\* when the lock was taken; every entry whose `docker inspect` exited
\* successfully holds the status that the output names (Unknown for a text
\* that names none), and every other entry (command exited unsuccessfully, or
\* not inspected yet) holds the status it had when the pass began; a pass that
\* reaches the end of the loop has inspected each entry once; and no insert of
\* add_container has happened while a pass was running.
C21_PassUnderLock ==
    /\ PassOn => lock = "check_status"
    /\ adder.at = "insert" => lock = "add_container" /\ ~ PassOn
    /\ ~ adder.mid
    /\ PassOn =>
          /\ DOMAIN containers = DOMAIN pass.first
          /\ DOMAIN pass.seen \subseteq DOMAIN pass.first
          /\ pass.todo \cap DOMAIN pass.seen = {}
          /\ (pass.at = "iter" /\ pass.todo = {}) => DOMAIN pass.seen = DOMAIN pass.first
          /\ \A id \in DOMAIN pass.first :
                containers[id] =
                    IF id \in Succeeded
                    THEN StatusSaid(pass.seen[id].stdout)
                    ELSE pass.first[id]

\* a pass over two containers is at the end of its loop: docker said
\* `removing` of the one that was Created, which is Unknown now, and failed,
\* with `running` on its output, for the one that was Exited, which still is;
\* a call of add_container is waiting for the lock
C21_Witness ==
    /\ pass.at = "iter"
    /\ pass.todo = {}
    /\ lock = "check_status"
    /\ adder.at = "lock"
    /\ DOMAIN pass.first = Ids
    /\ pass.first["4f2a"] = "Created"
    /\ pass.seen["4f2a"] = Output(TRUE, removing \o <<LF>>)
    /\ containers["4f2a"] = "Unknown"
    /\ pass.first["9c01"] = "Exited"
    /\ pass.seen["9c01"] = Output(FALSE, running \o <<LF>>)
    /\ containers["9c01"] = "Exited"

=============================================================================
